---- MODULE Spec2Model ----
(***************************************************************************)
(* Sudoku solver of Q3-Sudoku_Solver-Solution.py: solve_sudoku with its    *)
(* nested is_valid, find_empty (MRV cell selection) and solve (recursive   *)
(* backtracking).  Python lists are objects: the model keeps a heap of row *)
(* lists, and a board is a list of references to rows, so that copying and *)
(* aliasing are what the code makes them.  The recursion of solve is a     *)
(* stack of frames; one action per step of the recursion.                  *)
(***************************************************************************)
EXTENDS Integers, Sequences, FiniteSets, TLC

\* Board width: range(9) of the scans, len(board) != 9.
N == 9
\* Box width: col // 3, row // 3.
BoxSize == 3

\* Bounds of the model.
MaxEmpty == 9      \* most cells of Holes emptied in an input board
MaxCalls == 2      \* calls of solve_sudoku the caller makes on one board

\* Python's None (for a position, a board or a result).
None == <<>>

VARIABLES
  heap,        \* the row lists: heap[ref] is a row, a sequence of digits
  input,       \* the caller's board: a sequence of references to rows
  orig,        \* the value of the caller's board at call time (history)
  board_copy,  \* solve_sudoku's local board_copy: references, None before the copy
  stack,       \* active invocations of solve, innermost last
  pc,          \* "idle" (in the caller), "solve" (entering solve), "loop", "ret"
  retval,      \* the value the innermost invocation of solve returns (at "ret")
  results      \* what the calls of solve_sudoku returned so far

vars == <<heap, input, orig, board_copy, stack, pc, retval, results>>

----------------------------------------------------------------------------
\* Lists of lists.

\* board[i][j], 0-based as in the source.
Cell(board, i, j) == board[i + 1][j + 1]

\* The list-of-lists value a board (a list of references) has in heap h.
View(h, b) == [i \in 1..Len(b) |-> h[b[i]]]

\* board[row][col] = v: a write into the row object the board refers to.
Store(h, b, row, col, v) == [h EXCEPT ![b[row + 1]][col + 1] = v]

Min(S) == CHOOSE m \in S : \A x \in S : m <= x

----------------------------------------------------------------------------
\* is_valid without the 3x3 box check.
is_valid_no_box(board, num, pos) ==
  LET row == pos[1]
      col == pos[2]
  IN  /\ \A x \in 0..(N - 1) : ~(Cell(board, row, x) = num /\ col # x)
      /\ \A x \in 0..(N - 1) : ~(Cell(board, x, col) = num /\ row # x)

\* is_valid(board, num, pos)
is_valid(board, num, pos) ==
  LET row == pos[1]
      col == pos[2]
      box_x == col \div BoxSize
      box_y == row \div BoxSize
  IN  /\ \A x \in 0..(N - 1) : ~(Cell(board, row, x) = num /\ col # x)
      /\ \A x \in 0..(N - 1) : ~(Cell(board, x, col) = num /\ row # x)
      /\ \A i \in (box_y * BoxSize)..(box_y * BoxSize + BoxSize - 1) :
           \A j \in (box_x * BoxSize)..(box_x * BoxSize + BoxSize - 1) :
             ~(Cell(board, i, j) = num /\ <<i, j>> # pos)

\* sum(1 for num in range(1, 10) if is_valid(board, num, (i, j)))
possibilities(board, i, j) ==
  Cardinality({num \in 1..9 : is_valid(board, num, <<i, j>>)})

\* find_empty with possibilities <= min_possibilities: the last cell of the
\* minimum wins a tie.
find_empty_last_wins(board) ==
  LET scan[k \in 0..(N * N), min_possibilities \in 0..10,
           min_pos \in ((0..(N - 1)) \X (0..(N - 1))) \cup {None}] ==
        IF k = N * N THEN min_pos
        ELSE LET i == k \div N
                 j == k % N
             IN  IF Cell(board, i, j) = 0
                 THEN LET p == possibilities(board, i, j)
                      IN  IF p <= min_possibilities
                          THEN IF p = 1 THEN <<i, j>>
                               ELSE scan[k + 1, p, <<i, j>>]
                          ELSE scan[k + 1, min_possibilities, min_pos]
                 ELSE scan[k + 1, min_possibilities, min_pos]
  IN  scan[0, 10, None]

\* find_empty(board): scan[k, min_possibilities, min_pos] is what the two
\* nested loops return from cell k on (k = 9*i + j) with the running minimum
\* and its position as given; the early exit returns at once.
find_empty(board) ==
  LET scan[k \in 0..(N * N), min_possibilities \in 0..10,
           min_pos \in ((0..(N - 1)) \X (0..(N - 1))) \cup {None}] ==
        IF k = N * N THEN min_pos
        ELSE LET i == k \div N
                 j == k % N
             IN  IF Cell(board, i, j) = 0
                 THEN LET p == possibilities(board, i, j)
                      IN  IF p < min_possibilities
                          THEN IF p = 1 THEN <<i, j>>
                               ELSE scan[k + 1, p, <<i, j>>]
                          ELSE scan[k + 1, min_possibilities, min_pos]
                 ELSE scan[k + 1, min_possibilities, min_pos]
  IN  scan[0, 10, None]

\* for num in range(1, 10) of solve
LoopDigits == 1..9

\* return False inside the loop: solve gives up after its first failed trial.
NextDigitOnce(board, pos, last) ==
  LET S == {num \in LoopDigits : is_valid(board, num, pos)}
  IN  IF last > 0 \/ S = {} THEN 0 ELSE Min(S)

\* The next num after `last` of solve's loop that passes is_valid; 0 when the
\* loop runs out.
NextDigit(board, pos, last) ==
  LET S == {num \in LoopDigits : num > last /\ is_valid(board, num, pos)}
  IN  IF S = {} THEN 0 ELSE Min(S)

\* board[col][row] = num: the indices exchanged.
PlaceTransposed(h, b, row, col, num) == Store(h, b, col, row, num)

\* The placement forgotten: the cell stays empty.
PlaceNothing(h, b, row, col, num) == h

\* board[row][col] = num
Place(h, b, row, col, num) == Store(h, b, row, col, num)

\* The undo forgotten.
UndoSkipped(h, b, row, col) == h

\* board[row][col] = 0  # Backtrack
Undo(h, b, row, col) == Store(h, b, row, col, 0)

\* The shape test without any(len(row) != 9 for row in board).
WellShapedRowCountOnly(board) ==
  /\ Len(board) # 0
  /\ Len(board) = N

\* not board or len(board) != 9 or any(len(row) != 9 for row in board), negated
WellShaped(board) ==
  /\ Len(board) # 0
  /\ Len(board) = N
  /\ \A i \in 1..Len(board) : Len(board[i]) = N

\* board_copy = board[:] (or board_copy = board): the rows are shared.
CopyRefsShallow(h, b) == b

\* board_copy = [row[:] for row in board]: a new row object for every row.
\* The new heap and the new board's references.
CopyRows(h, b) == h \o [i \in 1..Len(b) |-> h[b[i]]]
CopyRefs(h, b) == [i \in 1..Len(b) |-> Len(h) + i]

----------------------------------------------------------------------------
\* Input boards.

\* The completed easy_board.
Solved ==
  << <<5, 3, 4, 6, 7, 8, 9, 1, 2>>,
     <<6, 7, 2, 1, 9, 5, 3, 4, 8>>,
     <<1, 9, 8, 3, 4, 2, 5, 6, 7>>,
     <<8, 5, 9, 7, 6, 1, 4, 2, 3>>,
     <<4, 2, 6, 8, 5, 3, 7, 9, 1>>,
     <<7, 1, 3, 9, 2, 4, 8, 5, 6>>,
     <<9, 6, 1, 5, 3, 7, 2, 8, 4>>,
     <<2, 8, 7, 4, 1, 9, 6, 3, 5>>,
     <<3, 4, 5, 2, 8, 6, 1, 7, 9>> >>

\* Cells an input board may have empty.
Holes == { <<0, 0>>, <<0, 2>>, <<4, 0>>, <<4, 1>>, <<7, 0>>,
           <<7, 3>>, <<8, 1>>, <<8, 2>>, <<8, 3>>, <<4, 4>> }

\* The cell an input board may have pre-filled with another digit, and the
\* digits it may hold then (Solved has 5 there).
Given == <<0, 0>>
GivenDigits == {1, 2, 4}

Emptied(E) ==
  [i \in 1..N |-> [j \in 1..N |->
     IF <<i - 1, j - 1>> \in E THEN 0 ELSE Solved[i][j]]]

\* 9x9 boards: Solved with at most MaxEmpty of Holes emptied and, when
\* d # 0, with d at Given.
Puzzle(E, d) ==
  IF d = 0 THEN Emptied(E)
  ELSE [Emptied(E) EXCEPT ![Given[1] + 1][Given[2] + 1] = d]

Puzzles ==
  { Puzzle(E, d) : E \in {X \in SUBSET Holes : Cardinality(X) <= MaxEmpty},
                   d \in {0} \cup GivenDigits }

\* Grids of another shape: 8 rows, a row of 10 columns, no row at all.
Malformed ==
  LET Few == { Puzzle(E, 0) : E \in {X \in SUBSET Holes : Cardinality(X) <= 1} }
  IN  { SubSeq(b, 1, N - 1) : b \in Few }
      \cup { [b EXCEPT ![3] = Append(b[3], 0)] : b \in Few }
      \cup { <<>> }

InputBoards == Puzzles \cup Malformed

Init ==
  /\ \E b \in InputBoards :
       /\ heap = b
       /\ input = [i \in 1..Len(b) |-> i]
       /\ orig = b
  /\ board_copy = None
  /\ stack = <<>>
  /\ pc = "idle"
  /\ retval = FALSE
  /\ results = <<>>

----------------------------------------------------------------------------
\* The working board of the search.
Board == View(heap, board_copy)

Top == stack[Len(stack)]

\* solve_sudoku(board), malformed board: return None
RejectMalformed ==
  /\ pc = "idle"
  /\ Len(results) < MaxCalls
  /\ ~WellShaped(View(heap, input))
  /\ results' = Append(results, None)
  /\ UNCHANGED <<heap, input, orig, board_copy, stack, pc, retval>>

\* solve_sudoku(board), well-shaped board: the copy, then the call solve(board_copy)
CopyAndSolve ==
  /\ pc = "idle"
  /\ Len(results) < MaxCalls
  /\ WellShaped(View(heap, input))
  /\ heap' = CopyRows(heap, input)
  /\ board_copy' = CopyRefs(heap, input)
  /\ stack' = <<>>
  /\ pc' = "solve"
  /\ UNCHANGED <<input, orig, retval, results>>

\* Entry of solve: empty = find_empty(board); if not empty: return True
SolveEntry ==
  /\ pc = "solve"
  /\ LET empty == find_empty(Board)
     IN  /\ stack' = Append(stack, [empty |-> empty, num |-> 0, entry |-> Board])
         /\ IF empty = None
            THEN pc' = "ret" /\ retval' = TRUE
            ELSE pc' = "loop" /\ retval' = retval
  /\ UNCHANGED <<heap, input, orig, board_copy, results>>

\* The loop of solve reaches a num that is_valid accepts: the placement, then
\* the recursive call.
PlaceDigit ==
  /\ pc = "loop"
  /\ LET f == Top
         num == NextDigit(Board, f.empty, f.num)
     IN  /\ num # 0
         /\ heap' = Place(heap, board_copy, f.empty[1], f.empty[2], num)
         /\ stack' = [stack EXCEPT ![Len(stack)].num = num]
  /\ pc' = "solve"
  /\ UNCHANGED <<input, orig, board_copy, retval, results>>

\* The loop of solve runs out: return False
Exhausted ==
  /\ pc = "loop"
  /\ NextDigit(Board, Top.empty, Top.num) = 0
  /\ pc' = "ret"
  /\ retval' = FALSE
  /\ UNCHANGED <<heap, input, orig, board_copy, stack, results>>

\* A recursive call returned True: if solve(board): return True
ReturnTrue ==
  /\ pc = "ret"
  /\ Len(stack) >= 2
  /\ retval = TRUE
  /\ stack' = SubSeq(stack, 1, Len(stack) - 1)
  /\ UNCHANGED <<heap, input, orig, board_copy, pc, retval, results>>

\* A recursive call returned False: the undo, then the next round of the loop.
Backtrack ==
  /\ pc = "ret"
  /\ Len(stack) >= 2
  /\ retval = FALSE
  /\ LET parent == stack[Len(stack) - 1]
     IN  heap' = Undo(heap, board_copy, parent.empty[1], parent.empty[2])
  /\ stack' = SubSeq(stack, 1, Len(stack) - 1)
  /\ pc' = "loop"
  /\ UNCHANGED <<input, orig, board_copy, retval, results>>

\* The outermost solve returned: return board_copy, or None
ReturnToCaller ==
  /\ pc = "ret"
  /\ Len(stack) = 1
  /\ results' = Append(results, IF retval THEN board_copy ELSE None)
  /\ stack' = <<>>
  /\ pc' = "idle"
  /\ UNCHANGED <<heap, input, orig, board_copy, retval>>

Next ==
  \/ RejectMalformed
  \/ CopyAndSolve
  \/ SolveEntry
  \/ PlaceDigit
  \/ Exhausted
  \/ ReturnTrue
  \/ Backtrack
  \/ ReturnToCaller

Spec == Init /\ [][Next]_vars

\* The boards of the deeper searches: those of Puzzles with at least the
\* cells of Core empty.
Core == { <<0, 2>>, <<4, 0>>, <<4, 1>>, <<7, 0>> }

DeepBoards == {b \in Puzzles : \A c \in Core : Cell(b, c[1], c[2]) = 0}

DeepInit ==
  /\ \E b \in DeepBoards \cup Malformed :
       /\ heap = b
       /\ input = [i \in 1..Len(b) |-> i]
       /\ orig = b
  /\ board_copy = None
  /\ stack = <<>>
  /\ pc = "idle"
  /\ retval = FALSE
  /\ results = <<>>

\* The program runs on: single-threaded, nothing suspends it.
FairSpec == DeepInit /\ [][Next]_vars /\ WF_vars(Next)

----------------------------------------------------------------------------
\* Sudoku's rules, stated on units (rows, columns, boxes), for the properties.

Idx == 0..(N - 1)
Cells == Idx \X Idx

Units ==
  { {<<i, j>> : j \in Idx} : i \in Idx }
  \cup { {<<i, j>> : i \in Idx} : j \in Idx }
  \cup { {<<BoxSize * a + i, BoxSize * b + j>> : i, j \in 0..(BoxSize - 1)} :
           a, b \in 0..(BoxSize - 1) }

At(board, c) == Cell(board, c[1], c[2])

EmptyCells(board) == {c \in Cells : At(board, c) = 0}

\* The grid has exactly 9 rows of exactly 9 columns each.
NineByNine(board) ==
  /\ Len(board) = 9
  /\ \A i \in 1..Len(board) : Len(board[i]) = 9

\* No two non-empty cells of a unit hold the same digit.
ConflictFree(board) ==
  \A U \in Units :
    Cardinality({c \in U : At(board, c) # 0})
      = Cardinality({At(board, c) : c \in U} \ {0})

\* Every unit holds each digit 1-9 (hence exactly once).
IsSolution(board) == \A U \in Units : {At(board, c) : c \in U} = 1..9

\* Two non-empty cells of one row hold the same digit.
RowConflict(board) ==
  \E i \in Idx : \E j, k \in Idx :
    j # k /\ Cell(board, i, j) # 0 /\ Cell(board, i, j) = Cell(board, i, k)

\* Some full valid assignment extends the board: fill the empty cells one by
\* one with any digit that keeps the units free of conflicts.
RECURSIVE Completable(_)
Completable(board) ==
  IF EmptyCells(board) = {} THEN IsSolution(board)
  ELSE LET c == CHOOSE x \in EmptyCells(board) : TRUE
       IN  \E d \in 1..9 :
             LET b2 == [board EXCEPT ![c[1] + 1][c[2] + 1] = d]
             IN  ConflictFree(b2) /\ Completable(b2)

\* The grid a call returned (None when it returned None).
Returned(k) == IF results[k] = None THEN None ELSE View(heap, results[k])

Calls == 1..Len(results)

----------------------------------------------------------------------------
\* C1: whenever solve_sudoku returns a grid, every row, every column and
\* every 3x3 box of that grid contains each digit 1-9 exactly once.
C1_ReturnedGridIsSolution ==
  \A k \in Calls : results[k] # None => IsSolution(Returned(k))

\* C2: for every 9x9 board in which two pre-filled cells of one row hold the
\* same digit, solve_sudoku returns None.
C2_RowConflictReturnsNone ==
  (NineByNine(orig) /\ RowConflict(orig)) => \A k \in Calls : results[k] = None

\* C3: solve_sudoku never mutates the caller's board: in every state the
\* input grid equals its value at call time and the working copy shares no
\* row with it; and all calls on the same input return equal results.
C3_InputNeverMutated ==
  /\ View(heap, input) = orig
  /\ board_copy # None =>
       {board_copy[i] : i \in 1..Len(board_copy)}
         \cap {input[i] : i \in 1..Len(input)} = {}
  /\ \A j, k \in Calls : Returned(j) = Returned(k)

\* C3's case: two calls on a board with empty cells, each returning a grid.
C3_Witness ==
  /\ Len(results) >= 2
  /\ results[1] # None /\ results[2] # None
  /\ EmptyCells(orig) # {}

\* C4: for a well-shaped board whose non-empty cells are free of conflicts,
\* solve_sudoku returns a grid iff some full valid assignment extends the
\* board.
C4_Complete ==
  (pc = "idle" /\ Len(results) >= 1 /\ NineByNine(orig) /\ ConflictFree(orig))
    => ((results[Len(results)] # None) <=> Completable(orig))

\* C4's case: a conflict-free board with empty cells that no assignment
\* completes, searched to exhaustion.
C4_Witness ==
  /\ pc = "idle" /\ Len(results) >= 1
  /\ NineByNine(orig) /\ ConflictFree(orig) /\ EmptyCells(orig) # {}
  /\ results[Len(results)] = None

\* C5: whenever an invocation of solve returns False, the working board
\* equals, cell for cell, its state at entry to that invocation.
C5_RestoredOnFalse ==
  (pc = "ret" /\ ~retval) => Board = Top.entry

\* C5's case: an invocation below the top that made a placement returns False.
C5_Witness ==
  /\ pc = "ret" /\ ~retval
  /\ Len(stack) >= 2
  /\ Top.num > 0

----------------------------------------------------------------------------
\* The cell selector, stated without its scan.

Index(c) == N * c[1] + c[2]

Count(board, c) == possibilities(board, c[1], c[2])

\* The first cell, in row-major order, of the least count among S.
FirstOfLeast(board, S) ==
  LET least == Min({Count(board, c) : c \in S})
      M == {c \in S : Count(board, c) = least}
  IN  CHOOSE c \in M : \A d \in M : Index(c) <= Index(d)

\* The empty cells up to and including the first one with exactly one
\* candidate (all of them when there is none).
Scanned(board) ==
  LET E == EmptyCells(board)
      Ones == {c \in E : Count(board, c) = 1}
  IN  IF Ones = {} THEN E
      ELSE {c \in E : \A o \in Ones : Index(c) <= Index(o)}

\* The invocation on top has just selected its cell.
Selected == pc \in {"loop", "ret"} /\ stack # <<>> /\ Top.num = 0

\* C6: find_empty returns None iff the board has no empty cell; otherwise it
\* returns an empty cell whose count of candidates is the minimum over all
\* empty cells, the first such cell in row-major order.
C6_GlobalMinimum ==
  Selected =>
    IF EmptyCells(Top.entry) = {} THEN Top.empty = None
    ELSE Top.empty = FirstOfLeast(Top.entry, EmptyCells(Top.entry))

\* C6, amended: find_empty returns None iff the board has no empty cell;
\* otherwise it returns the row-major first cell of the least count among the
\* empty cells up to and including the first one with exactly one candidate
\* (among all empty cells when no cell has exactly one).
C6_ScannedMinimum ==
  Selected =>
    IF EmptyCells(Top.entry) = {} THEN Top.empty = None
    ELSE Top.empty = FirstOfLeast(Top.entry, Scanned(Top.entry))

\* C6's case: several empty cells share a least count above one, and the
\* selector has taken the first of them.
C6_Witness ==
  /\ Selected
  /\ Top.empty # None
  /\ Count(Top.entry, Top.empty) > 1
  /\ \E c \in EmptyCells(Top.entry) :
       c # Top.empty /\ Count(Top.entry, c) = Count(Top.entry, Top.empty)

\* C7: for a grid that has not exactly 9 rows of exactly 9 columns,
\* solve_sudoku returns None at once: no copy is made, solve is never
\* entered, and every call returns None.
C7_MalformedRejected ==
  ~NineByNine(orig) =>
    /\ pc = "idle" /\ stack = <<>>
    /\ board_copy = None
    /\ heap = orig
    /\ \A k \in Calls : results[k] = None

\* C7's case: a call on a malformed grid has returned.
C7_Witness == ~NineByNine(orig) /\ orig # <<>> /\ Len(results) >= 1

\* C8: the search writes only to cells that were empty in the input: every
\* cell that is non-zero in the input holds the same digit in the working
\* board and in every returned grid.
C8_GivensKept ==
  NineByNine(orig) =>
    LET Givens == {c \in Cells : At(orig, c) # 0}
        Keeps(board) == \A c \in Givens : At(board, c) = At(orig, c)
    IN  /\ board_copy # None => Keeps(Board)
        /\ \A k \in Calls : results[k] # None => Keeps(Returned(k))

\* C8's case: a grid is returned for a board that had empty and filled cells.
C8_Witness ==
  /\ Len(results) >= 1 /\ results[1] # None
  /\ EmptyCells(orig) # {} /\ EmptyCells(orig) # Cells
  /\ EmptyCells(Returned(1)) = {}

\* C9: if the board at entry to the search has no two equal digits in a row,
\* column or box, the working board has none in any state of the search.
C9_SearchInvariant ==
  (NineByNine(orig) /\ ConflictFree(orig) /\ board_copy # None)
    => ConflictFree(Board)

\* C9's case: the search of a conflict-free board, after a trial was undone.
C9_Witness ==
  /\ NineByNine(orig) /\ ConflictFree(orig)
  /\ pc = "loop" /\ Top.num > 0

\* Number of recursive calls of solve below the outermost one.
Depth == IF stack = <<>> THEN 0 ELSE Len(stack) - 1

Filled(board) == Cardinality(Cells \ EmptyCells(board))

\* C10: every search, once started, ends (solved or exhausted); each
\* recursive level has exactly one more filled cell than its parent, and the
\* recursion depth never exceeds the number of empty cells of the input.
C10_Terminates ==
  /\ (pc # "idle") ~> (pc = "idle")
  /\ [](NineByNine(orig) =>
          /\ Depth <= Cardinality(EmptyCells(orig))
          /\ \A i \in 2..Len(stack) :
               Filled(stack[i].entry) = Filled(stack[i - 1].entry) + 1)

\* C10's case: the recursion is as deep as the input has empty cells.
C10_Witness ==
  /\ NineByNine(orig)
  /\ Cardinality(EmptyCells(orig)) >= 2
  /\ Depth = Cardinality(EmptyCells(orig))

====
